---- MODULE Spec2Model ----
(***************************************************************************)
(* Thread-safe LRU cache (src/lru_cache.py): a dict `cache` from key to    *)
(* node, a doubly linked list of nodes between the sentinels `head` and    *)
(* `tail`, and one threading.Lock held for the whole body of get and put.  *)
(*                                                                         *)
(* Nodes live in `heap`, a function from node identities to their fields;  *)
(* a node that nothing refers to any more is dropped from the heap when    *)
(* the call that held the last reference returns.  Each thread runs one    *)
(* call at a time; inside the critical section a call advances one source  *)
(* statement per step.                                                     *)
(***************************************************************************)
EXTENDS Integers, Sequences, FiniteSets, TLC

\* ------------------------------------------------------------------ bounds
NThreads == 2
MaxKey == 3
MaxCap == 2

\* ------------------------------------------------------- program constants
MISS == -1

Threads == 1..NThreads
Keys == 1..MaxKey
\* a key object that cannot be hashed (a list, say): dict.get raises TypeError
UnhashableKey == MaxKey + 1
CallKeys == Keys \cup {UnhashableKey}
Values == {MISS, 1}
CtorArgs == (0 - 1)..MaxCap

NoneId == 0
head == 1
tail == 2
FirstDataId == tail + 1

VARIABLES
    status,     \* "unconstructed" | "ok" | "ValueError": outcome of LRUCache(c)
    ctorArg,    \* the argument given to the constructor
    capacity,   \* self.capacity
    cache,      \* self.cache: key -> node identity
    heap,       \* node identity -> [key, value, prev, next]
    lock,       \* self.lock: TRUE when held
    pc,         \* per thread: position in its call
    op,         \* per thread: the call in progress [name, key, value]
    loc,        \* per thread: locals node, new_node, tail
    ret,        \* per thread: outcome of the call [kind, val]
    order,      \* history: present keys by last touch, oldest first
    written,    \* history: key -> value of the last put since its insertion
    ref,        \* reference atomic LRU: <<key, value>> pairs, most recent first
    gh,         \* per thread history of the call: hit, full, evicted, ref,
                \* and pre, the index and the heap as the call found them
    wrote       \* per worker thread: the put it checks with its next get

vars == <<status, ctorArg, capacity, cache, heap, lock, pc, op, loc, ret,
          order, written, ref, gh, wrote>>

implVars == <<status, ctorArg, capacity, cache, heap, lock>>

\* ----------------------------------------------------------------- records
NoOp == [name |-> "none", key |-> 0, value |-> 0]
NoLoc == [node |-> NoneId, new_node |-> NoneId, tail |-> NoneId]
NoRet == [kind |-> "pending", val |-> 0]
\* variant: the lookup raises instead of handing a value back
IntRet_raises(v) == [kind |-> "KeyError", val |-> 0]
IntRet(v) == [kind |-> "int", val |-> v]
NoneRet == [kind |-> "None", val |-> 0]
Raised(e) == [kind |-> e, val |-> 0]
NoPre == [cache |-> <<>>, heap |-> <<>>]
NoGh == [hit |-> FALSE, full |-> FALSE, evicted |-> 0, ref |-> NoRet,
         pre |-> NoPre]
NoWrote == [key |-> 0, value |-> 0, evicted |-> FALSE]

IsException(r) == r.kind \in {"TypeError", "AttributeError", "KeyError"}

\* _Node(key, value): lines 17-21
Node(k, v) == [key |-> k, value |-> v, prev |-> NoneId, next |-> NoneId]

\* ------------------------------------------------------------ list helpers
\* variant: the node is linked in front of the tail sentinel
add_node_at_tail(h, n) ==
    LET h1 == [h EXCEPT ![n].next = tail]
        h2 == [h1 EXCEPT ![n].prev = h1[tail].prev]
        h3 == [h2 EXCEPT ![h2[tail].prev].next = n]
    IN  [h3 EXCEPT ![tail].prev = n]

\* LRUCache._add_node, lines 64-69
add_node(h, n) ==
    LET h1 == [h EXCEPT ![n].prev = head]
        h2 == [h1 EXCEPT ![n].next = h1[head].next]
        h3 == [h2 EXCEPT ![h2[head].next].prev = n]
    IN  [h3 EXCEPT ![head].next = n]

\* a None neighbour makes _remove_node raise AttributeError (lines 79-80)
remove_raises(h, n) == h[n].prev = NoneId \/ h[n].next = NoneId

\* variant: the successor's prev link is not redirected
remove_node_half(h, n) ==
    IF h[n].prev = NoneId THEN h
    ELSE [h EXCEPT ![h[n].prev].next = h[n].next]

\* LRUCache._remove_node, lines 76-80
remove_node(h, n) ==
    LET prev_node == h[n].prev
        next_node == h[n].next
    IN  IF prev_node = NoneId THEN h
        ELSE IF next_node = NoneId THEN [h EXCEPT ![prev_node].next = next_node]
        ELSE LET h1 == [h EXCEPT ![prev_node].next = next_node]
             IN  [h1 EXCEPT ![next_node].prev = prev_node]

\* variant: the node next to head is taken as the victim
lru_node_mru(h) == h[head].next

\* the node _pop_tail picks, line 95
lru_node(h) == h[tail].prev

\* identity of a freshly allocated object: any identity not in use will do;
\* the one named after the key when it is free, else the least one beyond
NewId(h, k) ==
    IF (FirstDataId - 1) + k \notin DOMAIN h THEN (FirstDataId - 1) + k
    ELSE CHOOSE n \in (FirstDataId + MaxKey)..(FirstDataId + MaxKey + Cardinality(DOMAIN h)) :
            /\ n \notin DOMAIN h
            /\ \A m \in (FirstDataId + MaxKey)..(n - 1) : m \in DOMAIN h

\* objects still referred to: from the cache, the sentinels and the live
\* locals, following prev/next
RECURSIVE Closure(_, _)
Closure(h, S) ==
    LET N == (S \cup {h[n].prev : n \in S} \cup {h[n].next : n \in S}) \ {NoneId}
    IN  IF N = S THEN S ELSE Closure(h, N)

Roots(c, l) ==
    ({head, tail} \cup {c[k] : k \in DOMAIN c}
        \cup {l[t].node : t \in Threads} \cup {l[t].new_node : t \in Threads}
        \cup {l[t].tail : t \in Threads}) \ {NoneId}

Collect(h, c, l) ==
    LET live == Closure(h, Roots(c, l)) IN [n \in live |-> h[n]]

\* ------------------------------------------------------- views of the list
RECURSIVE Walk(_, _, _)
Walk(h, n, fuel) ==
    IF n = tail \/ n = NoneId \/ fuel = 0 THEN <<>>
    ELSE <<n>> \o Walk(h, h[n].next, fuel - 1)

RECURSIVE WalkBack(_, _, _)
WalkBack(h, n, fuel) ==
    IF n = head \/ n = NoneId \/ fuel = 0 THEN <<>>
    ELSE <<n>> \o WalkBack(h, h[n].prev, fuel - 1)

\* data nodes from head to tail via next
ListNodes(h) == Walk(h, h[head].next, Cardinality(DOMAIN h))
ListKeys(h) == [i \in 1..Len(ListNodes(h)) |-> h[ListNodes(h)[i]].key]
ListPairs(h) ==
    [i \in 1..Len(ListNodes(h)) |->
        <<h[ListNodes(h)[i]].key, h[ListNodes(h)[i]].value>>]

\* ------------------------------------------------------ sequence utilities
Without(s, k) == SelectSeq(s, LAMBDA x : x # k)
Restrict(f, S) == [x \in S |-> f[x]]

\* ------------------------------------------------ reference atomic LRU cache
\* a sequence of <<key, value>> pairs, most recently used first
RefHas(s, k) == \E i \in 1..Len(s) : s[i][1] = k
RefVal(s, k) == s[CHOOSE i \in 1..Len(s) : s[i][1] = k][2]
RefDrop(s, k) == SelectSeq(s, LAMBDA p : p[1] # k)

RefGetRet(s, k) ==
    IF k = UnhashableKey THEN Raised("TypeError")
    ELSE IF RefHas(s, k) THEN IntRet(RefVal(s, k)) ELSE IntRet(MISS)

RefGetState(s, k) ==
    IF k # UnhashableKey /\ RefHas(s, k)
    THEN <<<<k, RefVal(s, k)>>>> \o RefDrop(s, k)
    ELSE s

RefPutRet(s, k) == IF k = UnhashableKey THEN Raised("TypeError") ELSE NoneRet

RefPutState(s, cap, k, v) ==
    IF k = UnhashableKey THEN s
    ELSE IF RefHas(s, k) THEN <<<<k, v>>>> \o RefDrop(s, k)
    ELSE IF Len(s) >= cap THEN <<<<k, v>>>> \o SubSeq(s, 1, Len(s) - 1)
    ELSE <<<<k, v>>>> \o s

RefApplyRet(s, o) ==
    IF o.name = "get" THEN RefGetRet(s, o.key) ELSE RefPutRet(s, o.key)

RefApplyState(s, cap, o) ==
    IF o.name = "get" THEN RefGetState(s, o.key)
    ELSE RefPutState(s, cap, o.key, o.value)

\* ------------------------------------------------------ decisions of the code
\* variant: zero passes the capacity test
ValidCapacity_zero(c) == c >= 0

\* line 42 negated: the capacity the constructor accepts
ValidCapacity(c) == c > 0

\* variant: no exclusion, acquire always succeeds
CanAcquire_always(l) == TRUE

\* threading.Lock: acquire succeeds only on a free lock
CanAcquire(l) == l = FALSE

\* variant: acquire()/release() without try/finally, an exception keeps the lock
WithExit_leak(l, raised) == IF raised THEN l ELSE FALSE

\* `with self.lock:` leaves the lock free on every exit, exception or not
WithExit(l, raised) == FALSE

\* variant: eviction only once the capacity is exceeded
NeedsEvict_gt(n, cap) == n > cap

\* variant: eviction one entry early
NeedsEvict_early(n, cap) == n + 1 >= cap

\* line 130
NeedsEvict(n, cap) == n >= cap

\* variant: the update leaves the stored value alone
UpdateValue_noop(h, n, v) == h

\* line 140
UpdateValue(h, n, v) == [h EXCEPT ![n].value = v]

\* dict.get raises TypeError on an unhashable key (lines 107, 124)
Hashable(k) == k # UnhashableKey

CriticalPcs ==
    {"get_lookup", "put_lookup", "put_new", "put_pop", "put_del", "put_add",
     "put_store", "put_update", "mth_remove", "mth_add", "exit"}

InCritical(t) == pc[t] \in CriticalPcs

\* -------------------------------------------------------------------- Init
Init ==
    /\ status = "unconstructed"
    /\ ctorArg = 0
    /\ capacity = 0
    /\ cache = <<>>
    /\ heap = <<>>
    /\ lock = FALSE
    /\ pc = [t \in Threads |-> "idle"]
    /\ op = [t \in Threads |-> NoOp]
    /\ loc = [t \in Threads |-> NoLoc]
    /\ ret = [t \in Threads |-> NoRet]
    /\ order = <<>>
    /\ written = <<>>
    /\ ref = <<>>
    /\ gh = [t \in Threads |-> NoGh]
    /\ wrote = [t \in Threads |-> NoWrote]

\* LRUCache.__init__, lines 42-56
Construct(c) ==
    /\ status = "unconstructed"
    /\ ctorArg' = c
    /\ IF ValidCapacity(c)
       THEN /\ status' = "ok"
            /\ capacity' = c
            /\ cache' = <<>>
            /\ heap' = (head :> [Node(0, 0) EXCEPT !.next = tail])
                       @@ (tail :> [Node(0, 0) EXCEPT !.prev = head])
       ELSE /\ status' = "ValueError"
            /\ UNCHANGED <<capacity, cache, heap>>
    /\ UNCHANGED <<lock, pc, op, loc, ret, order, written, ref, gh, wrote>>

\* a caller invokes get or put and waits at `with self.lock:` (lines 106, 123);
\* the arguments are first read inside the critical section
Call(t) ==
    /\ status = "ok"
    /\ pc[t] = "idle"
    /\ pc' = [pc EXCEPT ![t] = "acquire"]
    /\ UNCHANGED <<implVars, op, loc, ret, order, written, ref, gh, wrote>>

\* the lock is taken for the call o; the reference cache executes the call
\* atomically at this point
Enter(t, o) ==
    /\ pc[t] = "acquire"
    /\ CanAcquire(lock)
    /\ lock' = TRUE
    /\ op' = [op EXCEPT ![t] = o]
    /\ pc' = [pc EXCEPT ![t] = IF o.name = "get" THEN "get_lookup"
                                                 ELSE "put_lookup"]
    /\ ref' = RefApplyState(ref, capacity, o)
    /\ gh' = [gh EXCEPT ![t] = [NoGh EXCEPT !.ref = RefApplyRet(ref, o),
                                            !.pre = [cache |-> cache, heap |-> heap]]]
    /\ UNCHANGED <<status, ctorArg, capacity, cache, heap, loc, ret,
                   order, written>>

GetOp(k) == [name |-> "get", key |-> k, value |-> 0]
PutOp(k, v) == [name |-> "put", key |-> k, value |-> v]

\* `with self.lock:` entry of get(k), line 106
AcquireGet(t, k) ==
    /\ Enter(t, GetOp(k))
    /\ wrote' = wrote

\* `with self.lock:` entry of put(k, v), line 123
AcquirePut(t, k, v) ==
    /\ Enter(t, PutOp(k, v))
    /\ wrote' = wrote

\* an exception leaves the with block
Raise(t, e) ==
    /\ pc' = [pc EXCEPT ![t] = "exit"]
    /\ ret' = [ret EXCEPT ![t] = Raised(e)]

\* get, lines 107-110
GetLookup(t) ==
    /\ pc[t] = "get_lookup"
    /\ IF ~Hashable(op[t].key)
       THEN /\ Raise(t, "TypeError")
            /\ UNCHANGED <<loc, gh>>
       ELSE /\ gh' = [gh EXCEPT ![t].hit = op[t].key \in DOMAIN cache,
                                ![t].full = Cardinality(DOMAIN cache) >= capacity]
            /\ IF op[t].key \in DOMAIN cache
               THEN /\ loc' = [loc EXCEPT ![t].node = cache[op[t].key]]
                    /\ pc' = [pc EXCEPT ![t] = "mth_remove"]
                    /\ ret' = ret
               ELSE /\ pc' = [pc EXCEPT ![t] = "exit"]
                    /\ ret' = [ret EXCEPT ![t] = IntRet(MISS)]
                    /\ loc' = loc
    /\ UNCHANGED <<implVars, op, order, written, ref, wrote>>

\* _move_to_head, line 87, called from get (113) and put (141)
MoveRemove(t) ==
    /\ pc[t] = "mth_remove"
    /\ IF remove_raises(heap, loc[t].node)
       THEN Raise(t, "AttributeError")
       ELSE /\ pc' = [pc EXCEPT ![t] = "mth_add"]
            /\ ret' = ret
    /\ heap' = remove_node(heap, loc[t].node)
    /\ UNCHANGED <<status, ctorArg, capacity, cache, lock, op, loc,
                   order, written, ref, gh, wrote>>

\* _move_to_head, line 88, then `return node.value` (114) or the end of put
MoveAdd(t) ==
    /\ pc[t] = "mth_add"
    /\ heap' = add_node(heap, loc[t].node)
    /\ pc' = [pc EXCEPT ![t] = "exit"]
    /\ ret' = [ret EXCEPT ![t] = IF op[t].name = "get"
                                   THEN IntRet(heap[loc[t].node].value)
                                   ELSE NoneRet]
    /\ order' = Append(Without(order, op[t].key), op[t].key)
    /\ UNCHANGED <<status, ctorArg, capacity, cache, lock, op, loc,
                   written, ref, gh, wrote>>

\* variant: a present key is not recognised and takes the insert path
PutLookup_as_new(t) ==
    /\ pc[t] = "put_lookup"
    /\ IF ~Hashable(op[t].key)
       THEN /\ Raise(t, "TypeError")
            /\ UNCHANGED <<loc, gh>>
       ELSE /\ gh' = [gh EXCEPT ![t].hit = op[t].key \in DOMAIN cache,
                                ![t].full = Cardinality(DOMAIN cache) >= capacity]
            /\ ret' = ret
            /\ pc' = [pc EXCEPT ![t] = "put_new"]
            /\ loc' = loc
    /\ UNCHANGED <<implVars, op, order, written, ref, wrote>>

\* put, lines 124-126
PutLookup(t) ==
    /\ pc[t] = "put_lookup"
    /\ IF ~Hashable(op[t].key)
       THEN /\ Raise(t, "TypeError")
            /\ UNCHANGED <<loc, gh>>
       ELSE /\ gh' = [gh EXCEPT ![t].hit = op[t].key \in DOMAIN cache,
                                ![t].full = Cardinality(DOMAIN cache) >= capacity]
            /\ ret' = ret
            /\ IF op[t].key \in DOMAIN cache
               THEN /\ loc' = [loc EXCEPT ![t].node = cache[op[t].key]]
                    /\ pc' = [pc EXCEPT ![t] = "put_update"]
               ELSE /\ pc' = [pc EXCEPT ![t] = "put_new"]
                    /\ loc' = loc
    /\ UNCHANGED <<implVars, op, order, written, ref, wrote>>

\* put, lines 128-130: the new node, then the capacity test
PutNew(t) ==
    /\ pc[t] = "put_new"
    /\ LET n == NewId(heap, op[t].key) IN
         /\ heap' = heap @@ (n :> Node(op[t].key, op[t].value))
         /\ loc' = [loc EXCEPT ![t].new_node = n]
    /\ pc' = [pc EXCEPT ![t] =
                IF NeedsEvict(Cardinality(DOMAIN cache), capacity)
                THEN "put_pop" ELSE "put_add"]
    /\ UNCHANGED <<status, ctorArg, capacity, cache, lock, op, ret,
                   order, written, ref, gh, wrote>>

\* put, line 132: tail = self._pop_tail()
PutPop(t) ==
    /\ pc[t] = "put_pop"
    /\ IF remove_raises(heap, lru_node(heap))
       THEN /\ Raise(t, "AttributeError")
            /\ loc' = loc
       ELSE /\ pc' = [pc EXCEPT ![t] = "put_del"]
            /\ loc' = [loc EXCEPT ![t].tail = lru_node(heap)]
            /\ ret' = ret
    /\ heap' = remove_node(heap, lru_node(heap))
    /\ UNCHANGED <<status, ctorArg, capacity, cache, lock, op,
                   order, written, ref, gh, wrote>>

\* put, line 133: del self.cache[tail.key]
PutDel(t) ==
    /\ pc[t] = "put_del"
    /\ LET k == heap[loc[t].tail].key IN
         IF k \notin DOMAIN cache
         THEN /\ Raise(t, "KeyError")
              /\ UNCHANGED <<cache, order, written, gh, wrote>>
         ELSE /\ cache' = Restrict(cache, DOMAIN cache \ {k})
              /\ order' = Without(order, k)
              /\ written' = Restrict(written, DOMAIN written \ {k})
              /\ gh' = [gh EXCEPT ![t].evicted = @ + 1]
              /\ wrote' = [u \in Threads |->
                            IF wrote[u].key = k
                            THEN [wrote[u] EXCEPT !.evicted = TRUE]
                            ELSE wrote[u]]
              /\ pc' = [pc EXCEPT ![t] = "put_add"]
              /\ ret' = ret
    /\ UNCHANGED <<status, ctorArg, capacity, heap, lock, op, loc, ref>>

\* put, line 136: self._add_node(new_node)
PutAdd(t) ==
    /\ pc[t] = "put_add"
    /\ heap' = add_node(heap, loc[t].new_node)
    /\ pc' = [pc EXCEPT ![t] = "put_store"]
    /\ UNCHANGED <<status, ctorArg, capacity, cache, lock, op, loc, ret,
                   order, written, ref, gh, wrote>>

\* put, line 137: self.cache[key] = new_node
PutStore(t) ==
    /\ pc[t] = "put_store"
    /\ cache' = [k \in DOMAIN cache \cup {op[t].key} |->
                    IF k = op[t].key THEN loc[t].new_node ELSE cache[k]]
    /\ pc' = [pc EXCEPT ![t] = "exit"]
    /\ ret' = [ret EXCEPT ![t] = NoneRet]
    /\ order' = Append(Without(order, op[t].key), op[t].key)
    /\ written' = [k \in DOMAIN written \cup {op[t].key} |->
                    IF k = op[t].key THEN op[t].value ELSE written[k]]
    /\ UNCHANGED <<status, ctorArg, capacity, heap, lock, op, loc, ref, gh,
                   wrote>>

\* put, line 140: node.value = value
PutUpdate(t) ==
    /\ pc[t] = "put_update"
    /\ heap' = UpdateValue(heap, loc[t].node, op[t].value)
    /\ pc' = [pc EXCEPT ![t] = "mth_remove"]
    /\ written' = [k \in DOMAIN written \cup {op[t].key} |->
                    IF k = op[t].key THEN op[t].value ELSE written[k]]
    /\ UNCHANGED <<status, ctorArg, capacity, cache, lock, op, loc, ret,
                   order, ref, gh, wrote>>

\* the with block is left (lines 106, 123): the lock is released, the locals
\* die with the frame and unreferenced nodes with them
Exit(t) ==
    /\ pc[t] = "exit"
    /\ lock' = WithExit(lock, IsException(ret[t]))
    /\ loc' = [loc EXCEPT ![t] = NoLoc]
    /\ heap' = Collect(heap, cache, loc')
    /\ pc' = [pc EXCEPT ![t] = "done"]
    /\ op' = [op EXCEPT ![t] = NoOp]
    /\ gh' = [gh EXCEPT ![t] = NoGh]
    /\ UNCHANGED <<status, ctorArg, capacity, cache, ret,
                   order, written, ref, wrote>>

\* the caller takes the outcome and is ready for its next call
Return(t) ==
    /\ pc[t] = "done"
    /\ pc' = [pc EXCEPT ![t] = "idle"]
    /\ ret' = [ret EXCEPT ![t] = NoRet]
    /\ wrote' = [wrote EXCEPT ![t] = IF ret[t].kind = "int" THEN NoWrote ELSE @]
    /\ UNCHANGED <<implVars, op, loc, order, written, ref, gh>>

Step(t) ==
    \/ GetLookup(t)
    \/ MoveRemove(t)
    \/ MoveAdd(t)
    \/ PutLookup(t)
    \/ PutNew(t)
    \/ PutPop(t)
    \/ PutDel(t)
    \/ PutAdd(t)
    \/ PutStore(t)
    \/ PutUpdate(t)
    \/ Exit(t)
    \/ Return(t)

Next ==
    \/ \E c \in CtorArgs : Construct(c)
    \/ \E t \in Threads : Call(t)
    \/ \E t \in Threads, k \in CallKeys : AcquireGet(t, k)
    \/ \E t \in Threads, k \in CallKeys, v \in Values : AcquirePut(t, k, v)
    \/ \E t \in Threads : Step(t)

Spec == Init /\ [][Next]_vars

\* ------------------------------------------------- the disjoint-key workers
\* worker of Test 6 (lines 248-256): put on a key of its own, then get on it
Owner(k) == ((k - 1) % NThreads) + 1

\* line 252: cache6.put(key, i)
WorkerAcquirePut(t, k, v) ==
    /\ wrote[t].key = 0
    /\ Owner(k) = t
    /\ Enter(t, PutOp(k, v))
    /\ wrote' = [wrote EXCEPT ![t] = [key |-> k, value |-> v, evicted |-> FALSE]]

\* line 253: val = cache6.get(key)
WorkerAcquireGet(t) ==
    /\ wrote[t].key # 0
    /\ Enter(t, GetOp(wrote[t].key))
    /\ wrote' = wrote

NextWorkers ==
    \/ \E c \in CtorArgs : Construct(c)
    \/ \E t \in Threads : Call(t)
    \/ \E t \in Threads, k \in Keys, v \in Values : WorkerAcquirePut(t, k, v)
    \/ \E t \in Threads : WorkerAcquireGet(t)
    \/ \E t \in Threads : Step(t)

SpecWorkers == Init /\ [][NextWorkers]_vars

\* ------------------------------------------------------------------ claims
Completed(t) == pc[t] = "exit" /\ ~IsException(ret[t])
Quiescent == \A t \in Threads : ~InCritical(t)

\* C1: for every capacity >= 1 the index and the recency list never hold more
\* than capacity entries, in any state of any interleaving, and they hold the
\* same number of entries whenever no call is inside the cache.
C1_SizeWithinCapacity ==
    status = "ok" =>
        /\ Cardinality(DOMAIN cache) <= capacity
        /\ Len(ListNodes(heap)) <= capacity
        /\ Quiescent => Len(ListNodes(heap)) = Cardinality(DOMAIN cache)

C1_Witness ==
    \E t \in Threads :
        /\ Completed(t) /\ op[t].name = "put" /\ gh[t].evicted = 1
        /\ capacity = MaxCap
        /\ Cardinality(DOMAIN cache) = capacity

\* C2: when a put of an absent key evicts, the node popped from the list holds
\* the present key whose last touch is the oldest.
C2_EvictsLeastRecentlyTouched ==
    \A t \in Threads :
        pc[t] = "put_del" =>
            /\ order # <<>>
            /\ heap[loc[t].tail].key = Head(order)

C2_Witness ==
    \E t \in Threads :
        /\ pc[t] = "put_del"
        /\ Len(order) >= 2
        /\ heap[loc[t].tail].key > order[2]

\* C3: a key leaves the index only in the del step of a put that found its key
\* absent and the cache full, that step removes exactly one key, and a call
\* ends having removed one key if it is such a put and none otherwise.
C3_OnlyOverflowPutEvicts ==
    /\ [](\A t \in Threads :
            Completed(t) =>
                gh[t].evicted =
                    IF op[t].name = "put" /\ ~gh[t].hit /\ gh[t].full
                    THEN 1 ELSE 0)
    /\ [][(DOMAIN cache \ DOMAIN cache' # {}) =>
            /\ Cardinality(DOMAIN cache \ DOMAIN cache') = 1
            /\ \E t \in Threads :
                /\ pc[t] = "put_del" /\ pc'[t] = "put_add"
                /\ op[t].name = "put"
                /\ ~gh[t].hit /\ gh[t].full /\ gh[t].evicted = 0]_vars

C3_Witness ==
    \E t \in Threads :
        /\ Completed(t) /\ op[t].name = "put"
        /\ ~gh[t].hit /\ gh[t].full /\ gh[t].evicted = 1
        /\ capacity = MaxCap

C5_RoundTrip ==
    \A t \in Threads :
        /\ (pc[t] = "exit" /\ op[t].name = "get" /\ op[t].key \in DOMAIN written)
            => ret[t] = IntRet(written[op[t].key])
        /\ (Completed(t) /\ op[t].name = "put")
            => /\ op[t].key \in DOMAIN cache
               /\ heap[cache[op[t].key]].key = op[t].key
               /\ heap[cache[op[t].key]].value = op[t].value

C5_Witness ==
    \E t \in Threads :
        /\ pc[t] = "exit" /\ op[t].name = "get" /\ gh[t].hit
        /\ ret[t] = IntRet(1)
        /\ Cardinality(DOMAIN cache) = MaxCap
        /\ \E k \in DOMAIN written : k # op[t].key /\ written[k] = MISS

\* C6: after a get hit or a put of k, k is the entry right after head, and with
\* capacity >= 2 the most recently touched key is never the one evicted.
C6_TouchedKeyIsMostRecent ==
    \A t \in Threads :
        /\ (Completed(t) /\ (op[t].name = "put" \/ gh[t].hit))
            => /\ heap[head].next = cache[op[t].key]
               /\ heap[heap[head].next].key = op[t].key
               /\ heap[heap[head].next].prev = head
        /\ (pc[t] = "put_del" /\ capacity >= 2)
            => heap[loc[t].tail].key # order[Len(order)]

C6_Witness ==
    \E t \in Threads :
        /\ Completed(t) /\ op[t].name = "get" /\ gh[t].hit
        /\ Len(ListNodes(heap)) >= 2
        /\ heap[heap[head].next].key = op[t].key

\* C7: at most one thread is between lock acquisition and release, and that
\* thread holds the lock.
C7_MutualExclusion ==
    /\ Cardinality({t \in Threads : InCritical(t)}) <= 1
    /\ (\E t \in Threads : InCritical(t)) => lock

C7_Witness ==
    \E t \in Threads, u \in Threads :
        /\ pc[t] = "mth_add"
        /\ pc[u] = "acquire"

\* C8: every call returns what the reference atomic cache returned when it ran
\* the call at lock acquisition, and between calls the list holds the
\* reference cache's entries in the same order.
C8_Linearizable ==
    /\ \A t \in Threads : pc[t] = "exit" => ret[t] = gh[t].ref
    /\ (status = "ok" /\ Quiescent) => ListPairs(heap) = ref

C8_Witness ==
    \E t \in Threads, u \in Threads :
        /\ pc[t] = "exit" /\ op[t].name = "get"
        /\ ret[t] = IntRet(MISS) /\ Len(ref) = MaxCap
        /\ \A i \in 1..Len(ref) : ref[i][2] # MISS
        /\ pc[u] = "acquire"

\* C9: the lock is free whenever no call is inside the critical section, also
\* after a call that ended with an exception.
C9_LockReleasedOnEveryExit ==
    Quiescent => lock = FALSE

C9_Witness ==
    \E t \in Threads, u \in Threads :
        /\ pc[t] = "done" /\ ret[t].kind = "TypeError"
        /\ pc[u] = "acquire"
        /\ lock = FALSE

\* C10: the constructor fails exactly for capacity <= 0 and then leaves no
\* object; for capacity >= 1 it yields an empty cache on which every get
\* misses until the first put.
C10_Construction ==
    /\ status = "ValueError" =>
        /\ ctorArg <= 0
        /\ capacity = 0 /\ cache = <<>> /\ heap = <<>>
    /\ status = "ok" =>
        /\ ctorArg >= 1
        /\ capacity = ctorArg
        \* no put has entered the cache yet
        /\ ref = <<>> =>
            /\ cache = <<>>
            /\ DOMAIN heap = {head, tail}
            /\ heap[head].next = tail
            /\ heap[tail].prev = head
            /\ \A t \in Threads :
                (pc[t] = "exit" /\ op[t].name = "get" /\ Hashable(op[t].key))
                    => ret[t] = IntRet(MISS)

C10_Witness ==
    \E t \in Threads :
        /\ status = "ok" /\ capacity = 1 /\ ref = <<>>
        /\ pc[t] = "exit" /\ op[t].name = "get" /\ ret[t] = IntRet(MISS)

\* what a call found when it took the lock
PreKeys(t) == DOMAIN gh[t].pre.cache
PrePairs(t) == ListPairs(gh[t].pre.heap)
PreValue(t, k) == gh[t].pre.heap[gh[t].pre.cache[k]].value
DropKey(s, k) == SelectSeq(s, LAMBDA p : p[1] # k)

C12_MissIsNormalAndPure ==
    \A t \in Threads :
        (pc[t] = "exit" /\ op[t].name = "get" /\ Hashable(op[t].key)
            /\ op[t].key \notin PreKeys(t)) =>
            /\ ret[t].kind = "int"
            /\ ret[t].val = -1
            /\ cache = gh[t].pre.cache
            /\ heap = gh[t].pre.heap

C12_Witness ==
    \E t \in Threads :
        /\ pc[t] = "exit" /\ op[t].name = "get"
        /\ op[t].key \in Keys /\ op[t].key \notin PreKeys(t)
        /\ ret[t].val = -1
        /\ Cardinality(DOMAIN cache) = MaxCap

\* C13: a put with a hashable key never raises, in an empty, partly filled or
\* full cache, and when it returns the key is present with the value given.
C13_PutAlwaysSucceeds ==
    \A t \in Threads :
        (op[t].name = "put" /\ Hashable(op[t].key)) =>
            /\ ~IsException(ret[t])
            /\ pc[t] = "exit" =>
                /\ ret[t] = NoneRet
                /\ op[t].key \in DOMAIN cache
                /\ heap[cache[op[t].key]].value = op[t].value

C13_Witness ==
    \E t \in Threads :
        /\ pc[t] = "exit" /\ op[t].name = "put" /\ ret[t] = NoneRet
        /\ Len(PrePairs(t)) = MaxCap /\ capacity = MaxCap
        /\ op[t].key \notin PreKeys(t)
        /\ op[t].key \in DOMAIN cache

\* C14: a put on a present key, also in a full cache, leaves the index as it
\* was (same keys, same entries), evicts nothing, stores the new value in the
\* entry of that key and leaves every other value alone.
C14_UpdateInPlace ==
    \A t \in Threads :
        (Completed(t) /\ op[t].name = "put" /\ op[t].key \in PreKeys(t)) =>
            /\ cache = gh[t].pre.cache
            /\ gh[t].evicted = 0
            /\ Len(ListNodes(heap)) = Len(PrePairs(t))
            /\ heap[cache[op[t].key]].key = op[t].key
            /\ heap[cache[op[t].key]].value = op[t].value
            /\ \A k \in DOMAIN cache \ {op[t].key} :
                heap[cache[k]].value = PreValue(t, k)

C14_Witness ==
    \E t \in Threads :
        /\ Completed(t) /\ op[t].name = "put" /\ op[t].key \in PreKeys(t)
        /\ Cardinality(PreKeys(t)) = MaxCap /\ capacity = MaxCap
        /\ PreValue(t, op[t].key) # op[t].value

Reverse(s) == [i \in 1..Len(s) |-> s[Len(s) + 1 - i]]
SeqSet(s) == {s[i] : i \in 1..Len(s)}

\* data nodes from tail to head via prev
BackNodes(h) == WalkBack(h, h[tail].prev, Cardinality(DOMAIN h))

\* C16: between calls the index and the list hold the same entries: the keys
\* of the list are the keys of the index, no key or node occurs twice, the
\* index maps each key to the listed node carrying that key, and the prev
\* links from tail give the same nodes in reverse.
C16_IndexAndListAgree ==
    (status = "ok" /\ Quiescent) =>
        /\ SeqSet(ListKeys(heap)) = DOMAIN cache
        /\ Cardinality(SeqSet(ListKeys(heap))) = Len(ListNodes(heap))
        /\ Cardinality(SeqSet(ListNodes(heap))) = Len(ListNodes(heap))
        /\ \A k \in DOMAIN cache :
            /\ heap[cache[k]].key = k
            /\ cache[k] \in SeqSet(ListNodes(heap))
        /\ BackNodes(heap) = Reverse(ListNodes(heap))
        /\ DOMAIN heap = {head, tail} \cup SeqSet(ListNodes(heap))

C16_Witness ==
    /\ status = "ok" /\ Quiescent
    /\ Len(ListNodes(heap)) = MaxCap /\ MaxCap >= 2
    /\ \E t \in Threads : pc[t] = "done" /\ ret[t] = IntRet(1)
    /\ ListKeys(heap)[1] > ListKeys(heap)[2]

\* C17: between calls the list from head to tail holds the present keys from
\* the most recently touched to the least recently touched.
C17_ListIsRecencyOrder ==
    (status = "ok" /\ Quiescent) => ListKeys(heap) = Reverse(order)

C17_Witness ==
    /\ status = "ok" /\ Quiescent
    /\ Len(order) = MaxCap /\ MaxCap >= 2
    /\ \E t \in Threads : pc[t] = "done" /\ ret[t] = IntRet(1)
    /\ ListKeys(heap)[1] < ListKeys(heap)[2]

\* C18: _pop_tail runs only on a list with a data entry, so what it unlinks is
\* a data node whose key is in the index; the sentinels are never unlinked,
\* moved or indexed, and no call ends in AttributeError or KeyError.
C18_PopTailNeverTakesSentinel ==
    /\ \A t \in Threads :
        /\ pc[t] = "put_pop" =>
            /\ Len(ListNodes(heap)) >= 1
            /\ lru_node(heap) \notin {head, tail, NoneId}
            /\ ~remove_raises(heap, lru_node(heap))
        /\ pc[t] = "put_del" =>
            /\ loc[t].tail \notin {head, tail, NoneId}
            /\ heap[loc[t].tail].key \in DOMAIN cache
        /\ loc[t].node \notin {head, tail}
        /\ ret[t].kind \notin {"AttributeError", "KeyError"}
    /\ status = "ok" =>
        /\ heap[head] = [Node(0, 0) EXCEPT !.next = heap[head].next]
        /\ heap[tail] = [Node(0, 0) EXCEPT !.prev = heap[tail].prev]
        /\ heap[head].next # NoneId /\ heap[tail].prev # NoneId
        /\ \A k \in DOMAIN cache : cache[k] \notin {head, tail}

C18_Witness ==
    \E t \in Threads :
        /\ pc[t] = "put_del" /\ capacity = 1
        /\ heap[head].next = tail /\ heap[tail].prev = head
        /\ heap[loc[t].tail].key \in DOMAIN cache

\* ------------------------------------------------------- fair scheduling
\* thread t takes the lock for some call
Acquires(t) ==
    \/ \E k \in CallKeys : AcquireGet(t, k)
    \/ \E k \in CallKeys, v \in Values : AcquirePut(t, k, v)

\* every thread that can run eventually runs; threading.Lock promises no
\* order among the threads waiting for it, so acquisition is only weakly fair
SpecFair ==
    /\ Spec
    /\ \A t \in Threads : WF_vars(Step(t))
    /\ \A t \in Threads : WF_vars(Acquires(t))

InCall(t) == pc[t] = "acquire" \/ InCritical(t)

\* while a call is in progress some thread can take a step: the lock is held
\* only by a thread inside its critical section, never by a waiting one
DeadlockFree ==
    /\ lock => \E u \in Threads : InCritical(u)
    /\ (\E t \in Threads : InCall(t)) =>
        \E u \in Threads : InCritical(u) \/ (pc[u] = "acquire" /\ lock = FALSE)

\* C19 as stated: no deadlock, and under fair scheduling every invoked call
\* eventually returns.
C19_EveryInvokedCallReturns ==
    /\ []DeadlockFree
    /\ \A t \in Threads : (pc[t] = "acquire") ~> (pc[t] = "done")

\* C19 as amended: no deadlock; under fair scheduling every call that holds
\* the lock eventually returns and releases it, and while a caller waits the
\* lock is eventually taken by some caller.
C19_NoDeadlockAndHolderReturns ==
    /\ []DeadlockFree
    /\ \A t \in Threads : InCritical(t) ~> (pc[t] = "done")
    /\ \A t \in Threads :
        (pc[t] = "acquire") ~> (\E u \in Threads : InCritical(u))

C19_Witness ==
    \E t \in Threads, u \in Threads :
        /\ pc[t] = "put_del" /\ lock
        /\ pc[u] = "acquire"

\* C20 as stated: get returns -1 exactly when the key is absent.
C20_MissIffAbsent ==
    \A t \in Threads :
        (pc[t] = "exit" /\ op[t].name = "get" /\ Hashable(op[t].key)) =>
            ((ret[t].kind = "int" /\ ret[t].val = -1)
                <=> op[t].key \notin PreKeys(t))

====
